---- MODULE Spec2Model ----
(***************************************************************************)
(* Model of the crosschain core: the asset-id canonicalization of          *)
(* amount.go, the Cosmos transaction adapter of chain/cosmos/tx.go and     *)
(* the Cosmos address builder of chain/cosmos/address.go.                  *)
(*                                                                         *)
(* Go strings are sequences of one-character strings, so that              *)
(* strings.Split and strings.ToUpper are computed character by character.  *)
(* A nilable Go value (interface, slice, func) is a sequence of length 0   *)
(* (nil) or 1 (the value).                                                 *)
(***************************************************************************)
EXTENDS Integers, Sequences, FiniteSets, TLC

VARIABLES
    \* amount.go: inputs and results of GetAssetIDFromAsset
    asset, nativeAsset, assetID, assetID2, assetIDSuffixed, apc,
    \* chain/cosmos/tx.go: the fields of Tx
    CosmosTx, ParsedTransfer, CosmosTxBuilder, CosmosTxEncoder, SigsV2, TxDataToSign,
    \* chain/cosmos/tx.go: the last call on the Tx, its argument and outcome
    op, arg, ret, err, panicked,
    \* chain/cosmos/address.go: input and results of the address builder
    publicKeyBytes, address, addressErr, possibleAddresses, possibleErr, bpc

assetVars == <<asset, nativeAsset, assetID, assetID2, assetIDSuffixed, apc>>
txFields == <<CosmosTx, ParsedTransfer, CosmosTxBuilder, CosmosTxEncoder, SigsV2, TxDataToSign>>
txVars == <<CosmosTx, ParsedTransfer, CosmosTxBuilder, CosmosTxEncoder, SigsV2, TxDataToSign,
            op, arg, ret, err, panicked>>
addrVars == <<publicKeyBytes, address, addressErr, possibleAddresses, possibleErr, bpc>>
vars == <<assetVars, txVars, addrVars>>

(***************************************************************************)
(* Bounds                                                                  *)
(***************************************************************************)
MaxParts == 3       \* '.'-separated parts of an asset input
MaxHintParts == 1   \* '.'-separated parts of a native hint input
MaxMsgs == 2        \* messages of a Cosmos transaction
MaxSlots == 2       \* signer slots of SigsV2
MaxKeyLen == 4      \* bytes of a public key

(***************************************************************************)
(* Nilable values                                                          *)
(***************************************************************************)
Nil == <<>>
Some(x) == <<x>>
IsNil(v) == Len(v) = 0
Val(v) == v[1]

(***************************************************************************)
(* amount.go: strings                                                      *)
(***************************************************************************)
Empty == <<>>
Dot == <<".">>

LowerToUpper ==
    [a |-> "A", b |-> "B", c |-> "C", d |-> "D", e |-> "E", f |-> "F", g |-> "G",
     h |-> "H", i |-> "I", j |-> "J", k |-> "K", l |-> "L", m |-> "M", n |-> "N",
     o |-> "O", p |-> "P", q |-> "Q", r |-> "R", s |-> "S", t |-> "T", u |-> "U",
     v |-> "V", w |-> "W", x |-> "X", y |-> "Y", z |-> "Z"]

\* strings.ToUpper
ToUpper(str) ==
    [i \in 1..Len(str) |->
        IF str[i] \in DOMAIN LowerToUpper THEN LowerToUpper[str[i]] ELSE str[i]]

\* strings.Split(str, "."): never empty, Split("") is one empty part
RECURSIVE Split(_)
Split(str) ==
    IF \A i \in 1..Len(str) : str[i] # "."
    THEN <<str>>
    ELSE LET i == CHOOSE k \in 1..Len(str) :
                      str[k] = "." /\ \A j \in 1..(k-1) : str[j] # "."
         IN <<SubSeq(str, 1, i-1)>> \o Split(SubSeq(str, i+1, Len(str)))

(***************************************************************************)
(* amount.go: the NativeAsset enumeration                                  *)
(***************************************************************************)
BCH == <<"B", "C", "H">>
BTC == <<"B", "T", "C">>
DOGE == <<"D", "O", "G", "E">>
ACA == <<"A", "C", "A">>
ArbETH == <<"A", "r", "b", "E", "T", "H">>
ATOM == <<"A", "T", "O", "M">>
AurETH == <<"A", "u", "r", "E", "T", "H">>
AVAX == <<"A", "V", "A", "X">>
BNB == <<"B", "N", "B">>
CELO == <<"C", "E", "L", "O">>
ETC == <<"E", "T", "C">>
ETH == <<"E", "T", "H">>
FTM == <<"F", "T", "M">>
KAR == <<"K", "A", "R">>
KLAY == <<"K", "L", "A", "Y">>
LUNA == <<"L", "U", "N", "A">>
MATIC == <<"M", "A", "T", "I", "C">>
OptETH == <<"O", "p", "t", "E", "T", "H">>
ROSE == <<"R", "O", "S", "E">>
SOL == <<"S", "O", "L">>

NativeAssets ==
    {BCH, BTC, DOGE, ACA, ArbETH, ATOM, AurETH, AVAX, BNB, CELO, ETC, ETH, FTM,
     KAR, KLAY, LUNA, MATIC, OptETH, ROSE, SOL}

AssetTypeNative == "native"
AssetTypeToken == "token"

\* Asset.AssetType: an exact, case-sensitive membership test
AssetType(a) == IF a \in NativeAssets THEN AssetTypeNative ELSE AssetTypeToken

parseAssetAndNativeAsset(a, n) ==
    IF a = Empty /\ n = Empty
    THEN <<Empty, Empty>>
    ELSE LET a1 == IF a = Empty /\ n # Empty THEN n ELSE a
             assetSplit == Split(a1)
             rewrite == Len(assetSplit) = 2 /\ AssetType(assetSplit[2]) = AssetTypeNative
             a2 == IF rewrite THEN assetSplit[1] ELSE a1
             n2 == IF rewrite /\ n = Empty THEN assetSplit[2] ELSE n
             validNative == AssetType(a2) = AssetTypeNative
             n3 == IF n2 = Empty THEN (IF validNative THEN a2 ELSE ETH) ELSE n2
         IN <<a2, ToUpper(n3)>>

GetAssetIDFromAsset(a, n) ==
    LET parsed == parseAssetAndNativeAsset(a, n)
        a1 == ToUpper(parsed[1])
        n1 == parsed[2]
        validNative == AssetType(a1) = AssetTypeNative
    IN IF a1 = n1 THEN a1
       ELSE IF n1 = ETH /\ ~validNative THEN a1
       ELSE a1 \o Dot \o n1

(***************************************************************************)
(* Inputs of the canonicalization                                          *)
(***************************************************************************)
USDC == <<"U", "S", "D", "C">>
WETH == <<"W", "E", "T", "H">>
usdc == <<"u", "s", "d", "c">>
eth == <<"e", "t", "h">>
sol == <<"s", "o", "l">>

UpperTokens == {USDC, WETH}
Symbols == {USDC, usdc, ETH, eth, SOL, sol, ArbETH}

RECURSIVE Dotted(_)
Dotted(k) ==
    IF k = 1 THEN Symbols
    ELSE {p \o Dot \o s : p \in Dotted(k-1), s \in Symbols}

AssetInputs ==
    {Empty} \cup NativeAssets \cup UpperTokens
    \cup UNION {Dotted(k) : k \in 1..MaxParts}
    \cup {s \o Dot \o n : s \in UpperTokens, n \in NativeAssets}

HintInputs == {Empty} \cup NativeAssets \cup UNION {Dotted(k) : k \in 1..MaxHintParts}

AssetInit ==
    /\ asset \in AssetInputs
    /\ nativeAsset \in HintInputs
    /\ assetID = Empty
    /\ assetID2 = Empty
    /\ assetIDSuffixed = Empty
    /\ apc = "input"

\* id := GetAssetIDFromAsset(asset, nativeAsset)
Canonicalize ==
    /\ apc = "input"
    /\ assetID' = GetAssetIDFromAsset(asset, nativeAsset)
    /\ apc' = "canonical"
    /\ UNCHANGED <<asset, nativeAsset, assetID2, assetIDSuffixed>>

\* id2 := GetAssetIDFromAsset(id, "")
Recanonicalize ==
    /\ apc = "canonical"
    /\ assetID2' = GetAssetIDFromAsset(assetID, Empty)
    /\ apc' = "recanonical"
    /\ UNCHANGED <<asset, nativeAsset, assetID, assetIDSuffixed>>

\* idSuffixed := GetAssetIDFromAsset(asset + "." + nativeAsset, "")
CanonicalizeSuffixed ==
    /\ apc = "canonical"
    /\ assetIDSuffixed' = GetAssetIDFromAsset(asset \o Dot \o nativeAsset, Empty)
    /\ apc' = "suffixed"
    /\ UNCHANGED <<asset, nativeAsset, assetID, assetID2>>

AssetNext == Canonicalize \/ Recanonicalize \/ CanonicalizeSuffixed

(***************************************************************************)
(* chain/cosmos/address.go                                                 *)
(***************************************************************************)
AddressTypeDefault == "AddressTypeDefault"
NotImplemented == "not implemented"
NoError == ""

\* AddressBuilder.GetAddressFromPublicKey
GetAddressFromPublicKey(pk) == [Address |-> Empty, err |-> NotImplemented]

\* GetAllPossibleAddressesFromPublicKey returning no entry when the address
\* derivation fails
GetAllPossibleAddressesOnSuccessOnly(pk) ==
    LET r == GetAddressFromPublicKey(pk)
    IN [addresses |-> IF r.err = NoError
                      THEN <<[Address |-> r.Address, Type |-> AddressTypeDefault]>>
                      ELSE <<>>,
        err |-> r.err]

\* AddressBuilder.GetAllPossibleAddressesFromPublicKey
GetAllPossibleAddressesFromPublicKey(pk) ==
    LET r == GetAddressFromPublicKey(pk)
    IN [addresses |-> <<[Address |-> r.Address, Type |-> AddressTypeDefault]>>,
        err |-> r.err]

Bytes == 0..2

RECURSIVE ByteStrings(_)
ByteStrings(k) ==
    IF k = 0 THEN {<<>>}
    ELSE ByteStrings(k-1) \cup {Append(b, c) : b \in ByteStrings(k-1), c \in Bytes}

AddrInit ==
    /\ publicKeyBytes \in ByteStrings(MaxKeyLen)
    /\ address = Empty
    /\ addressErr = NoError
    /\ possibleAddresses = <<>>
    /\ possibleErr = NoError
    /\ bpc = "input"

CallGetAddress ==
    /\ bpc \in {"input", "all"}
    /\ address' = GetAddressFromPublicKey(publicKeyBytes).Address
    /\ addressErr' = GetAddressFromPublicKey(publicKeyBytes).err
    /\ bpc' = IF bpc = "input" THEN "address" ELSE "both"
    /\ UNCHANGED <<publicKeyBytes, possibleAddresses, possibleErr>>

CallGetAllPossibleAddresses ==
    /\ bpc \in {"input", "address"}
    /\ possibleAddresses' = GetAllPossibleAddressesFromPublicKey(publicKeyBytes).addresses
    /\ possibleErr' = GetAllPossibleAddressesFromPublicKey(publicKeyBytes).err
    /\ bpc' = IF bpc = "input" THEN "all" ELSE "both"
    /\ UNCHANGED <<publicKeyBytes, address, addressErr>>

AddrNext == CallGetAddress \/ CallGetAllPossibleAddresses

(***************************************************************************)
(* chain/cosmos/tx.go: values held by the fields of Tx                     *)
(***************************************************************************)
NotInitialized == "transaction not initialized"
EncodeFailed == "encode failed"

MsgSendAB == [kind |-> "MsgSend", FromAddress |-> "addrA", ToAddress |-> "addrB", Amount |-> <<5, 6>>]
MsgSendBA == [kind |-> "MsgSend", FromAddress |-> "addrB", ToAddress |-> "addrA", Amount |-> <<7>>]
MsgSendNoCoins == [kind |-> "MsgSend", FromAddress |-> "addrA", ToAddress |-> "addrB", Amount |-> <<>>]
MsgOther == [kind |-> "MsgOther", FromAddress |-> "addrC", ToAddress |-> "addrD", Amount |-> <<9>>]
Msgs == {MsgSendAB, MsgSendBA, MsgSendNoCoins, MsgOther}

RECURSIVE SeqsUpTo(_, _)
SeqsUpTo(S, k) ==
    IF k = 0 THEN {<<>>}
    ELSE SeqsUpTo(S, k-1) \cup {Append(q, e) : q \in SeqsUpTo(S, k-1), e \in S}

\* a types.Tx: its messages, whether it implements types.FeeTx, GetFee(),
\* and the raw signatures it carries
CosmosTxs ==
    {[msgs |-> m, feeTx |-> FALSE, fee |-> <<>>, sigs |-> <<>>] :
        m \in SeqsUpTo(Msgs, MaxMsgs)}
    \cup {[msgs |-> <<MsgSendAB>>, feeTx |-> TRUE, fee |-> f, sigs |-> <<>>] :
        f \in {<<>>, <<3, 4>>}}

EmptyCosmosTx == [msgs |-> <<>>, feeTx |-> TRUE, fee |-> <<>>, sigs |-> <<>>]

SignModeDirect == "SIGN_MODE_DIRECT"
SignModeUnspecified == "SIGN_MODE_UNSPECIFIED"

\* signing.SignatureData: *SingleSignatureData or *MultiSignatureData
SingleSignatureData(mode, sig) == [kind |-> "single", SignMode |-> mode, Signature |-> sig]
MultiSignatureData == [kind |-> "multi", SignMode |-> SignModeUnspecified, Signature |-> <<>>]

\* signing.SignatureV2 as the build stage leaves it: Data nil, a single
\* signature placeholder without signature bytes, or multi-signature data
Slots ==
    {[Data |-> Nil],
     [Data |-> Some(SingleSignatureData(SignModeDirect, <<>>))],
     [Data |-> Some(MultiSignatureData)]}

Signatures == {<<7>>, <<8, 9>>}

(***************************************************************************)
(* External collaborators: client.TxBuilder, types.TxEncoder, tmhash, hex  *)
(***************************************************************************)
\* the signature bytes a signer slot contributes to the transaction
RawSignature(slot) == IF IsNil(slot.Data) THEN <<>> ELSE Val(slot.Data).Signature

\* client.TxBuilder.GetTx: the builder's transaction with its signatures
GetTx(b) == [b.tx EXCEPT !.sigs = [i \in 1..Len(b.sigs) |-> RawSignature(b.sigs[i])]]

\* client.TxBuilder.SetSignatures
SetSignatures(b, sigs) == [b EXCEPT !.sigs = sigs]

AddrByte == [addrA |-> 1, addrB |-> 2, addrC |-> 3, addrD |-> 4]

RECURSIVE MarshalMsgs(_)
MarshalMsgs(ms) ==
    IF ms = <<>> THEN <<>>
    ELSE LET m == Head(ms)
         IN <<IF m.kind = "MsgSend" THEN 1 ELSE 2, AddrByte[m.FromAddress],
              AddrByte[m.ToAddress], Len(m.Amount)>> \o m.Amount \o MarshalMsgs(Tail(ms))

RECURSIVE MarshalSigs(_)
MarshalSigs(ss) ==
    IF ss = <<>> THEN <<>>
    ELSE <<Len(Head(ss))>> \o Head(ss) \o MarshalSigs(Tail(ss))

\* a length-prefixed encoding of body, fee and signatures
Marshal(t) ==
    <<Len(t.msgs)>> \o MarshalMsgs(t.msgs) \o <<Len(t.fee)>> \o t.fee
        \o <<Len(t.sigs)>> \o MarshalSigs(t.sigs)

\* a types.TxEncoder: one that encodes and one that reports an error
Encoders == {"encode", "fail"}
Encode(enc, t) ==
    IF enc = "encode" THEN [bytes |-> Marshal(t), err |-> NoError]
    ELSE [bytes |-> <<>>, err |-> EncodeFailed]

\* tmhash.Sum, a collision-free digest of the bytes
TmhashSum(bytes) == <<"sha256">> \o bytes
\* hex.EncodeToString
HexEncodeToString(digest) == <<"hex">> \o digest
EmptyHash == <<>>

(***************************************************************************)
(* chain/cosmos/tx.go: the methods of Tx, on the current state             *)
(***************************************************************************)
\* Tx.Serialize
Serialize ==
    IF IsNil(CosmosTxEncoder)
    THEN [bytes |-> <<>>, err |-> NotInitialized]
    ELSE LET txToEncode == IF ~IsNil(CosmosTxBuilder)
                           THEN Some(GetTx(Val(CosmosTxBuilder)))
                           ELSE CosmosTx
         IN IF IsNil(txToEncode)
            THEN [bytes |-> <<>>, err |-> NotInitialized]
            ELSE Encode(Val(CosmosTxEncoder), Val(txToEncode))

\* Tx.Hash
Hash ==
    LET serialized == Serialize
    IN IF serialized.err # NoError \/ Len(serialized.bytes) = 0
       THEN EmptyHash
       ELSE HexEncodeToString(TmhashSum(serialized.bytes))

\* Tx.Sighash
Sighash ==
    IF IsNil(TxDataToSign)
    THEN [data |-> Nil, err |-> NotInitialized]
    ELSE [data |-> TxDataToSign, err |-> NoError]

IsMsgSend(m) == m.kind = "MsgSend"

\* the loop of ParseTransfer without the type switch: any message is assigned
RECURSIVE ProjectTransferAnyKind(_, _)
ProjectTransferAnyKind(ms, cur) ==
    IF ms = <<>> THEN cur
    ELSE ProjectTransferAnyKind(Tail(ms), Some(Head(ms)))

\* the loop of Tx.ParseTransfer: every MsgSend of the list is assigned in turn
RECURSIVE ProjectTransfer(_, _)
ProjectTransfer(ms, cur) ==
    IF ms = <<>> THEN cur
    ELSE ProjectTransfer(Tail(ms), IF IsMsgSend(Head(ms)) THEN Some(Head(ms)) ELSE cur)

\* Tx.From
From ==
    IF ~IsNil(ParsedTransfer) /\ IsMsgSend(Val(ParsedTransfer))
    THEN Val(ParsedTransfer).FromAddress ELSE ""

\* Tx.To
To ==
    IF ~IsNil(ParsedTransfer) /\ IsMsgSend(Val(ParsedTransfer))
    THEN Val(ParsedTransfer).ToAddress ELSE ""

\* Tx.ContractAddress
ContractAddress == ""

\* Tx.Amount: tf.Amount[0] is out of range on an empty coin list
Amount ==
    IF ~IsNil(ParsedTransfer) /\ IsMsgSend(Val(ParsedTransfer))
    THEN IF Len(Val(ParsedTransfer).Amount) = 0
         THEN [val |-> 0, panic |-> TRUE]
         ELSE [val |-> Val(ParsedTransfer).Amount[1], panic |-> FALSE]
    ELSE [val |-> 0, panic |-> FALSE]

\* Tx.Fee: tf.GetFee()[0] is out of range on an empty fee list
Fee ==
    IF ~IsNil(CosmosTx) /\ Val(CosmosTx).feeTx
    THEN IF Len(Val(CosmosTx).fee) = 0
         THEN [val |-> 0, panic |-> TRUE]
         ELSE [val |-> Val(CosmosTx).fee[1], panic |-> FALSE]
    ELSE [val |-> 0, panic |-> FALSE]

(***************************************************************************)
(* chain/cosmos/tx.go: calls on a Tx                                       *)
(***************************************************************************)
Returns(name, a, r, e) ==
    /\ op' = name
    /\ arg' = a
    /\ ret' = r
    /\ err' = e
    /\ panicked' = FALSE

Panics(name, a) ==
    /\ op' = name
    /\ arg' = a
    /\ ret' = <<>>
    /\ err' = NoError
    /\ panicked' = TRUE

\* any value of the struct: each field unset or set
TxInit ==
    /\ CosmosTx \in {Nil} \cup {Some(t) : t \in CosmosTxs}
    /\ ParsedTransfer \in {Nil, Some(MsgSendAB)}
    /\ CosmosTxEncoder \in {Nil} \cup {Some(e) : e \in Encoders}
    /\ TxDataToSign \in {Nil, Some(<<1, 2>>)}
    /\ SigsV2 \in {Nil} \cup {Some(q) : q \in SeqsUpTo(Slots, MaxSlots)}
    /\ CosmosTxBuilder \in
          {Nil, Some([tx |-> IF IsNil(CosmosTx) THEN EmptyCosmosTx ELSE Val(CosmosTx),
                      sigs |-> <<>>])}
    /\ op = "new"
    /\ arg = <<>>
    /\ ret = <<>>
    /\ err = NoError
    /\ panicked = FALSE

CallHash ==
    /\ ~panicked
    /\ Returns("Hash", <<>>, Hash, NoError)
    /\ UNCHANGED txFields

CallSighash ==
    /\ ~panicked
    /\ Returns("Sighash", <<>>, Sighash.data, Sighash.err)
    /\ UNCHANGED txFields

\* AddSignature appending a signer slot instead of writing slot 0
AddSignatureAppends(signature) ==
    /\ ~panicked
    /\ IF IsNil(SigsV2) \/ Len(Val(SigsV2)) < 1 \/ IsNil(CosmosTxBuilder)
       THEN /\ Returns("AddSignature", signature, <<>>, NotInitialized)
            /\ UNCHANGED txFields
       ELSE LET data == Val(SigsV2)[1].Data
            IN IF IsNil(data) \/ Val(data).kind # "single"
               THEN /\ Panics("AddSignature", signature)
                    /\ UNCHANGED txFields
               ELSE LET signMode == Val(data).SignMode
                        sigs == Append(Val(SigsV2),
                                       [Data |-> Some(SingleSignatureData(signMode, signature))])
                    IN /\ SigsV2' = Some(sigs)
                       /\ CosmosTxBuilder' = Some(SetSignatures(Val(CosmosTxBuilder), sigs))
                       /\ Returns("AddSignature", signature, <<>>, NoError)
                       /\ UNCHANGED <<CosmosTx, ParsedTransfer, CosmosTxEncoder, TxDataToSign>>

AddSignature(signature) ==
    /\ ~panicked
    /\ IF IsNil(SigsV2) \/ Len(Val(SigsV2)) < 1 \/ IsNil(CosmosTxBuilder)
       THEN /\ Returns("AddSignature", signature, <<>>, NotInitialized)
            /\ UNCHANGED txFields
       ELSE LET data == Val(SigsV2)[1].Data
            IN IF IsNil(data) \/ Val(data).kind # "single"
               THEN \* data.(*SingleSignatureData) on nil or on another type
                    /\ Panics("AddSignature", signature)
                    /\ UNCHANGED txFields
               ELSE LET signMode == Val(data).SignMode
                        sigs == [Val(SigsV2) EXCEPT
                                    ![1].Data = Some(SingleSignatureData(signMode, signature))]
                    IN /\ SigsV2' = Some(sigs)
                       /\ CosmosTxBuilder' = Some(SetSignatures(Val(CosmosTxBuilder), sigs))
                       /\ Returns("AddSignature", signature, <<>>, NoError)
                       /\ UNCHANGED <<CosmosTx, ParsedTransfer, CosmosTxEncoder, TxDataToSign>>

CallSerialize ==
    /\ ~panicked
    /\ Returns("Serialize", <<>>, Serialize.bytes, Serialize.err)
    /\ UNCHANGED txFields

ParseTransfer ==
    /\ ~panicked
    /\ IF IsNil(CosmosTx)
       THEN \* GetMsgs on a nil interface
            /\ Panics("ParseTransfer", <<>>)
            /\ UNCHANGED txFields
       ELSE /\ ParsedTransfer' = ProjectTransfer(Val(CosmosTx).msgs, ParsedTransfer)
            /\ Returns("ParseTransfer", <<>>, <<>>, NoError)
            /\ UNCHANGED <<CosmosTx, CosmosTxBuilder, CosmosTxEncoder, SigsV2, TxDataToSign>>

CallFrom ==
    /\ ~panicked
    /\ Returns("From", <<>>, <<From>>, NoError)
    /\ UNCHANGED txFields

CallTo ==
    /\ ~panicked
    /\ Returns("To", <<>>, <<To>>, NoError)
    /\ UNCHANGED txFields

CallContractAddress ==
    /\ ~panicked
    /\ Returns("ContractAddress", <<>>, <<ContractAddress>>, NoError)
    /\ UNCHANGED txFields

CallAmount ==
    /\ ~panicked
    /\ IF Amount.panic
       THEN Panics("Amount", <<>>)
       ELSE Returns("Amount", <<>>, <<Amount.val>>, NoError)
    /\ UNCHANGED txFields

CallFee ==
    /\ ~panicked
    /\ IF Fee.panic
       THEN Panics("Fee", <<>>)
       ELSE Returns("Fee", <<>>, <<Fee.val>>, NoError)
    /\ UNCHANGED txFields

TxNext ==
    \/ CallHash
    \/ CallSighash
    \/ \E signature \in Signatures : AddSignature(signature)
    \/ CallSerialize
    \/ ParseTransfer
    \/ CallFrom
    \/ CallTo
    \/ CallContractAddress
    \/ CallAmount
    \/ CallFee

(***************************************************************************)
(* Specifications                                                          *)
(***************************************************************************)
AssetIdle ==
    /\ asset = Empty /\ nativeAsset = Empty /\ assetID = Empty
    /\ assetID2 = Empty /\ assetIDSuffixed = Empty /\ apc = "idle"

TxIdle ==
    /\ CosmosTx = Nil /\ ParsedTransfer = Nil /\ CosmosTxBuilder = Nil
    /\ CosmosTxEncoder = Nil /\ SigsV2 = Nil /\ TxDataToSign = Nil
    /\ op = "idle" /\ arg = <<>> /\ ret = <<>> /\ err = NoError /\ panicked = FALSE

AddrIdle ==
    /\ publicKeyBytes = <<>> /\ address = Empty /\ addressErr = NoError
    /\ possibleAddresses = <<>> /\ possibleErr = NoError /\ bpc = "idle"

\* the Cosmos transaction adapter
Init == TxInit /\ AssetIdle /\ AddrIdle
Next == TxNext /\ UNCHANGED <<assetVars, addrVars>>
Spec == Init /\ [][Next]_vars

\* the asset-id canonicalization
InitAsset == AssetInit /\ TxIdle /\ AddrIdle
NextAsset == AssetNext /\ UNCHANGED <<txVars, addrVars>>
SpecAsset == InitAsset /\ [][NextAsset]_vars

\* the Cosmos address builder
InitAddress == AddrInit /\ AssetIdle /\ TxIdle
NextAddress == AddrNext /\ UNCHANGED <<assetVars, txVars>>
SpecAddress == InitAddress /\ [][NextAddress]_vars

(***************************************************************************)
(* Properties of the asset-id canonicalization (SpecAsset)                 *)
(***************************************************************************)
Canonicalized == apc \in {"canonical", "recanonical", "suffixed"}

\* C1: canonicalization is idempotent: canonicalizing the id of any input
\* pair again, with an empty hint, gives the same id.
CanonicalizeIdempotent == apc = "recanonical" => assetID2 = assetID

\* C2: native self-identity: a native asset N with hint "" or N
\* canonicalizes to exactly N.
NativeSelfIdentity ==
    (Canonicalized /\ asset \in NativeAssets /\ nativeAsset \in {Empty, asset})
        => assetID = asset

\* C3: default-chain omission: an upper-case token S with hint "" or "ETH"
\* canonicalizes to S, with another native hint N to S.N, and S.N with an
\* empty hint canonicalizes to the same id as S with hint N.
DefaultChainOmission ==
    (Canonicalized /\ asset \in UpperTokens) =>
        /\ nativeAsset \in {Empty, ETH} => assetID = asset
        /\ nativeAsset \in NativeAssets \ {ETH} => assetID = asset \o Dot \o nativeAsset
        /\ (apc = "suffixed" /\ nativeAsset \in NativeAssets) => assetIDSuffixed = assetID

(***************************************************************************)
(* Properties of the Cosmos transaction adapter (Spec)                     *)
(***************************************************************************)
\* the build stage has not completed: a build field is unset, or a signer
\* slot has no signature data yet
NotBuilt ==
    \/ IsNil(TxDataToSign)
    \/ IsNil(CosmosTxBuilder)
    \/ IsNil(CosmosTxEncoder)
    \/ IsNil(CosmosTx)
    \/ IsNil(SigsV2)
    \/ Len(Val(SigsV2)) = 0
    \/ \E i \in 1..Len(Val(SigsV2)) : IsNil(Val(SigsV2)[i].Data)

Built == ~NotBuilt /\ \A i \in 1..Len(Val(SigsV2)) : Val(Val(SigsV2)[i].Data).kind = "single"

\* C4: before the build stage has completed, Sighash() and AddSignature()
\* return the 'transaction not initialized' error, do not panic and leave the
\* Tx unchanged.
NotInitializedBeforeBuild ==
    [][(NotBuilt /\ op' \in {"Sighash", "AddSignature"})
          => (~panicked' /\ err' = NotInitialized /\ UNCHANGED txFields)]_vars

\* C5: after an AddSignature() that returned without error Hash() is
\* non-empty; Hash() returns the hash of the current state and changes
\* nothing; and the hash changes exactly when the serialized bytes change.
HashAfterSignature ==
    [][/\ (op' = "AddSignature" /\ ~panicked' /\ err' = NoError) => Hash' # EmptyHash
       /\ op' = "Hash" => (ret' = Hash /\ UNCHANGED txFields)
       /\ (Hash' # Hash) <=> (Serialize'.bytes # Serialize.bytes)]_vars

HasMsgSend(ms) == \E i \in 1..Len(ms) : IsMsgSend(ms[i])
FirstMsgSend(ms) ==
    ms[CHOOSE i \in 1..Len(ms) : IsMsgSend(ms[i]) /\ \A j \in 1..(i-1) : ~IsMsgSend(ms[j])]

\* C6: after ParseTransfer() on a transaction of several messages, From(),
\* To() and Amount() are those of the first MsgSend of the message list.
FirstTransferProjected ==
    (op = "ParseTransfer" /\ ~panicked /\ Len(Val(CosmosTx).msgs) >= 2
        /\ HasMsgSend(Val(CosmosTx).msgs)) =>
        LET first == FirstMsgSend(Val(CosmosTx).msgs)
        IN /\ From = first.FromAddress
           /\ To = first.ToAddress
           /\ Len(first.Amount) > 0 => Amount = [val |-> first.Amount[1], panic |-> FALSE]

\* C7: ParseTransfer() on a transaction without a MsgSend raises no error and
\* leaves ParsedTransfer as it was, so that an unset ParsedTransfer stays
\* unset and From(), To() are empty and Amount() is zero; and the messages
\* that are not a MsgSend never change what is projected.
UnrecognizedProjection ==
    [][(op' = "ParseTransfer" /\ ~IsNil(CosmosTx)) =>
          LET ms == Val(CosmosTx).msgs
          IN /\ ~panicked'
             /\ err' = NoError
             /\ ~HasMsgSend(ms) =>
                   /\ ParsedTransfer' = ParsedTransfer
                   /\ IsNil(ParsedTransfer) =>
                         /\ From' = ""
                         /\ To' = ""
                         /\ Amount' = [val |-> 0, panic |-> FALSE]
             /\ ParsedTransfer' = ProjectTransfer(SelectSeq(ms, IsMsgSend), ParsedTransfer)]_vars

UnrecognizedProjectionWitness ==
    /\ op = "ParseTransfer"
    /\ ~panicked
    /\ ~IsNil(CosmosTx)
    /\ Len(Val(CosmosTx).msgs) >= 1
    /\ ~HasMsgSend(Val(CosmosTx).msgs)
    /\ IsNil(ParsedTransfer)

\* C9: Fee() returns the first fee entry of a fee-capable transaction and
\* zero otherwise (unset CosmosTx, empty fee list) and never panics; Amount()
\* on a MsgSend with an empty amount list returns zero and does not panic.
FeeNeverPanics ==
    /\ op = "Fee" =>
          /\ ~panicked
          /\ ret = <<IF ~IsNil(CosmosTx) /\ Val(CosmosTx).feeTx /\ Len(Val(CosmosTx).fee) > 0
                     THEN Val(CosmosTx).fee[1] ELSE 0>>
    /\ (op = "Amount" /\ ~IsNil(ParsedTransfer) /\ IsMsgSend(Val(ParsedTransfer))
           /\ Len(Val(ParsedTransfer).Amount) = 0) =>
          /\ ~panicked
          /\ ret = <<0>>

\* C10: a successful AddSignature(s) keeps the number of signer slots, puts
\* s with the slot's sign mode into slot 0, leaves the other slots, the
\* payload to sign, the encoder and the transaction as they were, and hands
\* the builder exactly the slots of SigsV2.
AddSignatureOverwrites ==
    [][(op' = "AddSignature" /\ ~panicked' /\ err' = NoError) =>
          /\ Len(Val(SigsV2')) = Len(Val(SigsV2))
          /\ Val(SigsV2')[1].Data =
                Some(SingleSignatureData(Val(Val(SigsV2)[1].Data).SignMode, arg'))
          /\ \A i \in 2..Len(Val(SigsV2)) : Val(SigsV2')[i] = Val(SigsV2)[i]
          /\ Val(CosmosTxBuilder').sigs = Val(SigsV2')
          /\ Val(CosmosTxBuilder').tx = Val(CosmosTxBuilder).tx
          /\ Sighash' = Sighash
          /\ UNCHANGED <<TxDataToSign, CosmosTxEncoder, CosmosTx, ParsedTransfer>>]_vars

AddSignatureOverwritesWitness ==
    /\ op = "AddSignature"
    /\ ~panicked
    /\ err = NoError
    /\ Built
    /\ Len(Val(SigsV2)) >= 2
    /\ Val(Val(SigsV2)[1].Data).Signature = arg
    /\ Val(Val(SigsV2)[1].Data).SignMode = SignModeDirect
    /\ Val(Val(SigsV2)[2].Data).Signature = <<>>

(***************************************************************************)
(* Properties of the Cosmos address builder (SpecAddress)                  *)
(***************************************************************************)
\* C8: GetAllPossibleAddressesFromPublicKey returns exactly one entry, of the
\* default type, holding the address of GetAddressFromPublicKey, together
\* with the error of GetAddressFromPublicKey; the address is non-empty
\* whenever that error is nil.
PossibleAddressesComplete ==
    bpc \in {"all", "both"} =>
        /\ Len(possibleAddresses) = 1
        /\ possibleAddresses[1].Type = AddressTypeDefault
        /\ possibleAddresses[1].Address = GetAddressFromPublicKey(publicKeyBytes).Address
        /\ possibleErr = GetAddressFromPublicKey(publicKeyBytes).err
        /\ bpc = "both" =>
              /\ possibleAddresses[1].Address = address
              /\ possibleErr = addressErr
        /\ possibleErr = NoError => possibleAddresses[1].Address # Empty

PossibleAddressesCompleteWitness ==
    /\ bpc = "both"
    /\ Len(publicKeyBytes) > 0
    /\ Len(possibleAddresses) = 1
    /\ possibleErr = addressErr

====
